---- MODULE Spec2Model ----
(***************************************************************************)
(* Model of src/src/mem_table.rs: the memtable of an LSM storage engine.   *)
(*                                                                         *)
(*   KVTable                  a sorted map (crossbeam SkipMap) from key to *)
(*                            (value-or-tombstone, attributes), a running  *)
(*                            size counter and a durability watch channel  *)
(*   MemTableIterator         a cursor over a key range of one table       *)
(*   VecDequeKeyValueIterator the eagerly materialized merge of several    *)
(*                            tables' range iterators                      *)
(*                                                                         *)
(* Four specifications share the variables:                                *)
(*   Spec       one table, its single writer and point lookups             *)
(*   IterSpec   one table and a range iterator over the quiescent table    *)
(*   MergeSpec  several tables, materialize_range, next_entry and seek     *)
(*   LiveSpec   the durability signal, its waiters and the notifier        *)
(***************************************************************************)
EXTENDS Integers, Sequences, FiniteSets, TLC

(***************************************************************************)
(* Bounds of the model                                                     *)
(***************************************************************************)

\* number of tables that the merge is given (MergeSpec)
NumTables == 2

\* number of put/delete calls in one behaviour of MergeSpec
MaxWrites == 2

\* number of tasks that call await_durable (LiveSpec)
NumWaiters == 2

\* number of notify_durable calls in one behaviour of LiveSpec
MaxNotifies == 2

\* number of keys that the table of IterSpec holds
NumKeys == 3

\* number of keys that the writer of Spec uses
NumWriterKeys == 2

\* number of keys that the tables of MergeSpec hold
NumMergeKeys == 2

\* number of clones of the Arc of a table that readers hold at one time
MaxReaders == 2

\* the keys are byte strings; in byte order <<1>> < <<1, 2>> < <<2>> < <<3>>
KeyList == << <<1, 2>>, <<3>>, <<2>>, <<1>> >>

Keys == {KeyList[i] : i \in 1..NumKeys}

WriterKeys == {KeyList[i] : i \in 1..NumWriterKeys}

MergeKeys == {KeyList[i] : i \in 1..NumMergeKeys}

\* the payloads of put
Values == {<<7>>, <<7, 8>>}

\* the timestamps that attributes carry
Timestamps == {5}

(***************************************************************************)
(* Option<T>: None is the empty sequence, Some(x) the one-element sequence *)
(***************************************************************************)

None == <<>>

Some(x) == <<x>>

IsSome(o) == o # <<>>

Unwrap(o) == o[1]

(***************************************************************************)
(* Row model                                                               *)
(***************************************************************************)

\* RowAttributes { ts, expire_ts }
RowAttributes == [ts : {None} \cup {Some(t) : t \in Timestamps},
                  expire_ts : {None} \cup {Some(t) : t \in Timestamps}]

\* ValueDeletable::Value(bytes)
Value(bytes) == [kind |-> "Value", bytes |-> bytes]

\* ValueDeletable::Tombstone
Tombstone == [kind |-> "Tombstone", bytes |-> <<>>]

\* ValueWithAttributes { value, attrs }
ValueWithAttributes(value, attrs) == [value |-> value, attrs |-> attrs]

\* RowEntry, as MemTableIterator::next_entry_sync builds it from a map entry
RowOfEntry(node) ==
    [key |-> node.key,
     value |-> node.val.value,
     seq |-> 0,
     create_ts |-> node.val.attrs.ts,
     expire_ts |-> node.val.attrs.expire_ts]

(***************************************************************************)
(* Byte order of keys (Ord for Bytes): lexicographic, a proper prefix is   *)
(* smaller                                                                 *)
(***************************************************************************)

Min(a, b) == IF a <= b THEN a ELSE b

BytesLess(a, b) ==
    \/ /\ Len(a) < Len(b)
       /\ \A i \in 1..Len(a) : a[i] = b[i]
    \/ \E i \in 1..Min(Len(a), Len(b)) :
          /\ a[i] < b[i]
          /\ \A j \in 1..(i - 1) : a[j] = b[j]

(***************************************************************************)
(* The SkipMap: a list of nodes [key, val] that insert keeps in key order  *)
(***************************************************************************)

\* the position at which a search for key k stops: the first node whose key
\* is not less than k, or one past the end
RECURSIVE SearchPosition(_, _, _)
SearchPosition(m, k, i) ==
    IF i > Len(m) THEN i
    ELSE IF BytesLess(m[i].key, k) THEN SearchPosition(m, k, i + 1)
    ELSE i

\* SkipMap::get
MapGet(m, k) ==
    LET p == SearchPosition(m, k, 1) IN
    IF p <= Len(m) /\ m[p].key = k THEN Some(m[p].val) ELSE None

\* the mutant of MapInsert: the new node is linked in without unlinking the
\* node that holds the key
MapInsertKeepOld(m, k, v) ==
    LET p == SearchPosition(m, k, 1) IN
    SubSeq(m, 1, p - 1) \o <<[key |-> k, val |-> v]>> \o SubSeq(m, p, Len(m))

\* the mutant of MapInsert: the new node is linked in at the front
MapInsertFront(m, k, v) ==
    LET p == SearchPosition(m, k, 1) IN
    IF p <= Len(m) /\ m[p].key = k
    THEN <<[key |-> k, val |-> v]>> \o SubSeq(m, 1, p - 1) \o SubSeq(m, p + 1, Len(m))
    ELSE <<[key |-> k, val |-> v]>> \o m

\* SkipMap::insert: an existing node with the key is removed, the new node
\* is linked in at the search position
MapInsert(m, k, v) ==
    LET p == SearchPosition(m, k, 1) IN
    IF p <= Len(m) /\ m[p].key = k
    THEN SubSeq(m, 1, p - 1) \o <<[key |-> k, val |-> v]>> \o SubSeq(m, p + 1, Len(m))
    ELSE SubSeq(m, 1, p - 1) \o <<[key |-> k, val |-> v]>> \o SubSeq(m, p, Len(m))

\* SkipMap::insert, first part: a node that holds the key is marked as
\* removed, and no reader finds it any more
MapRemove(m, k) == SelectSeq(m, LAMBDA node : node.key # k)

\* SkipMap::insert, second part: the new node is linked in at the search
\* position, where no node holds the key any more
MapLink(m, k, v) ==
    LET p == SearchPosition(m, k, 1) IN
    SubSeq(m, 1, p - 1) \o <<[key |-> k, val |-> v]>> \o SubSeq(m, p, Len(m))

(***************************************************************************)
(* Size accounting                                                         *)
(***************************************************************************)

\* the mutant of sizeof_attributes: the expiration timestamp is charged too
sizeof_attributes_both(attrs) ==
    (IF IsSome(attrs.ts) THEN 8 ELSE 0) + (IF IsSome(attrs.expire_ts) THEN 8 ELSE 0)

\* fn sizeof_attributes
sizeof_attributes(attrs) == IF IsSome(attrs.ts) THEN 8 ELSE 0

\* the mutant of maybe_subtract_old_val_from_size: the attributes of the old
\* entry are not subtracted
maybe_subtract_no_attrs(table, key) ==
    LET old_deletable == MapGet(table.map, key) IN
    IF IsSome(old_deletable)
    THEN table.size - (Len(key) + Len(Unwrap(old_deletable).value.bytes))
    ELSE table.size

\* KVTable::maybe_subtract_old_val_from_size: the size after the call
maybe_subtract_old_val_from_size(table, key) ==
    LET old_deletable == MapGet(table.map, key) IN
    IF IsSome(old_deletable)
    THEN LET old_size == Len(key)
                         + (IF Unwrap(old_deletable).value.kind = "Tombstone"
                            THEN 0
                            ELSE Len(Unwrap(old_deletable).value.bytes))
                         + sizeof_attributes(Unwrap(old_deletable).attrs)
         IN table.size - old_size
    ELSE table.size

\* the argument of fetch_add in KVTable::put and KVTable::delete
AddedSize(key, entry) ==
    Len(key)
    + (IF entry.value.kind = "Tombstone" THEN 0 ELSE Len(entry.value.bytes))
    + sizeof_attributes(entry.attrs)

\* KVTable::put: the table after the call
TablePut(table, key, value, attrs) ==
    [map |-> MapInsert(table.map, key, ValueWithAttributes(Value(value), attrs)),
     size |-> maybe_subtract_old_val_from_size(table, key)
              + (Len(key) + Len(value) + sizeof_attributes(attrs))]

\* the mutant of TableDelete: the node of the key is unlinked and no
\* tombstone is stored
TableDeleteRemove(table, key, attrs) ==
    [map |-> SelectSeq(table.map, LAMBDA node : node.key # key),
     size |-> maybe_subtract_old_val_from_size(table, key)]

\* KVTable::delete: the table after the call
TableDelete(table, key, attrs) ==
    [map |-> MapInsert(table.map, key, ValueWithAttributes(Tombstone, attrs)),
     size |-> maybe_subtract_old_val_from_size(table, key)
              + (Len(key) + sizeof_attributes(attrs))]

\* KVTable::get
TableGet(table, key) == MapGet(table.map, key)

\* KVTable::new: the empty table
NewTable == [map |-> <<>>, size |-> 0]

(***************************************************************************)
(* Range bounds (std::ops::Bound) and the SkipMap's range cursor           *)
(***************************************************************************)

Unbounded == [kind |-> "Unbounded", key |-> <<>>]

Included(k) == [kind |-> "Included", key |-> k]

Excluded(k) == [kind |-> "Excluded", key |-> k]

Bounds == {Unbounded} \cup {Included(k) : k \in Keys} \cup {Excluded(k) : k \in Keys}

\* the ranges that KVTable::range is called with
Ranges == [start : Bounds, end : Bounds]

\* the range of KVTable::iter
RangeFull == [start |-> Unbounded, end |-> Unbounded]

\* whether key k lies above the lower bound
above_lower_bound(bound, k) ==
    CASE bound.kind = "Unbounded" -> TRUE
      [] bound.kind = "Included" -> ~BytesLess(k, bound.key)
      [] bound.kind = "Excluded" -> BytesLess(bound.key, k)

\* whether key k lies below the upper bound
below_upper_bound(bound, k) ==
    CASE bound.kind = "Unbounded" -> TRUE
      [] bound.kind = "Included" -> ~BytesLess(bound.key, k)
      [] bound.kind = "Excluded" -> BytesLess(k, bound.key)

\* the mutant of SearchBound: an inclusive bound is searched as an exclusive
\* one
RECURSIVE SearchBoundExclusive(_, _, _)
SearchBoundExclusive(m, bound, i) ==
    IF i > Len(m) THEN i
    ELSE IF bound.kind # "Unbounded" /\ ~BytesLess(bound.key, m[i].key)
         THEN SearchBoundExclusive(m, bound, i + 1)
         ELSE i

\* the position of the first node above the lower bound, or one past the end
RECURSIVE SearchBound(_, _, _)
SearchBound(m, bound, i) ==
    IF i > Len(m) THEN i
    ELSE IF above_lower_bound(bound, m[i].key) THEN i
    ELSE SearchBound(m, bound, i + 1)

\* the cursor that KVTable::range returns: nothing yielded yet
NewIterator(t, range) == [open |-> TRUE, t |-> t, range |-> range, head |-> None]

\* no iterator has been constructed
NoIterator == [open |-> FALSE, t |-> 1, range |-> RangeFull, head |-> None]

\* the mutant of IterNext: the upper bound of the range is not checked
IterNextNoUpper(m, it) ==
    LET p == IF IsSome(it.head)
             THEN SearchBound(m, Excluded(Unwrap(it.head)), 1)
             ELSE SearchBound(m, it.range.start, 1)
    IN IF p <= Len(m)
       THEN [it |-> [it EXCEPT !.head = Some(m[p].key)], ret |-> Some(RowOfEntry(m[p]))]
       ELSE [it |-> [it EXCEPT !.head = None], ret |-> None]

\* the mutant of IterNext: when the node of the head was removed from the
\* map, the cursor starts again from the lower bound
IterNextLost(m, it) ==
    LET p == IF IsSome(it.head) /\ IsSome(MapGet(m, Unwrap(it.head)))
             THEN SearchBound(m, Excluded(Unwrap(it.head)), 1)
             ELSE SearchBound(m, it.range.start, 1)
    IN IF p <= Len(m) /\ below_upper_bound(it.range.end, m[p].key)
       THEN [it |-> [it EXCEPT !.head = Some(m[p].key)], ret |-> Some(RowOfEntry(m[p]))]
       ELSE [it |-> [it EXCEPT !.head = None], ret |-> None]

\* MemTableIterator::next_entry_sync over the SkipMap's Range::next: the
\* cursor moves to the first node after the head (from the lower bound when
\* there is no head); past the upper bound or at the end of the list the
\* head is cleared and nothing is returned
IterNext(m, it) ==
    LET p == IF IsSome(it.head)
             THEN SearchBound(m, Excluded(Unwrap(it.head)), 1)
             ELSE SearchBound(m, it.range.start, 1)
    IN IF p <= Len(m) /\ below_upper_bound(it.range.end, m[p].key)
       THEN [it |-> [it EXCEPT !.head = Some(m[p].key)], ret |-> Some(RowOfEntry(m[p]))]
       ELSE [it |-> [it EXCEPT !.head = None], ret |-> None]

\* a MemTableIterator drained until it returns nothing: the rows it yields
RECURSIVE Drain(_, _)
Drain(m, it) ==
    LET r == IterNext(m, it) IN
    IF IsSome(r.ret) THEN <<Unwrap(r.ret)>> \o Drain(m, r.it) ELSE <<>>

(***************************************************************************)
(* The merge of several range iterators (MergeIterator) and the            *)
(* materialized queue                                                      *)
(***************************************************************************)

\* the input lists of materialize_range: NumTables distinct tables, or all
\* but one of them, in every order
RECURSIVE TableLists(_)
TableLists(n) ==
    IF n = 0 THEN {<<>>}
    ELSE LET shorter == TableLists(n - 1) IN
         shorter \cup {Append(l, t) : l \in {x \in shorter : Len(x) = n - 1},
                                      t \in 1..NumTables}

DistinctTableLists ==
    {l \in TableLists(NumTables) :
        /\ Len(l) >= NumTables - 1
        /\ \A i, j \in 1..Len(l) : i # j => l[i] # l[j]}

\* the iterators that still hold a row
Live(lists) == {i \in 1..Len(lists) : lists[i] # <<>>}

\* MergeIterator: the iterator whose current row is emitted next, the one
\* with the smallest key and, among equal keys, the earliest in the list
MergeWinner(lists) ==
    CHOOSE i \in Live(lists) :
        \A j \in Live(lists) :
            \/ BytesLess(lists[i][1].key, lists[j][1].key)
            \/ lists[i][1].key = lists[j][1].key /\ i <= j

\* MergeIterator::next_entry until it returns nothing: the winner's row is
\* emitted and every iterator positioned at the same key advances
RECURSIVE MergeAll(_)
MergeAll(lists) ==
    IF Live(lists) = {} THEN <<>>
    ELSE LET w == MergeWinner(lists)
             k == lists[w][1].key
         IN <<lists[w][1]>>
            \o MergeAll([i \in 1..Len(lists) |->
                           IF lists[i] # <<>> /\ lists[i][1].key = k
                           THEN Tail(lists[i])
                           ELSE lists[i]])

\* the list of tables in the opposite order
Reverse(list) == [i \in 1..Len(list) |-> list[Len(list) + 1 - i]]

\* the mutant of materialize_range: the tables are handed to the merge in
\* the opposite order
materialize_range_reversed(tbls, list, range) ==
    MergeAll([i \in 1..Len(list) |->
                Drain(tbls[Reverse(list)[i]].map, NewIterator(Reverse(list)[i], range))])

\* the mutant of materialize_range: every merged row is pushed to the front
\* of the queue
materialize_range_push_front(tbls, list, range) ==
    Reverse(MergeAll([i \in 1..Len(list) |->
                        Drain(tbls[list[i]].map, NewIterator(list[i], range))]))

\* VecDequeKeyValueIterator::materialize_range: one range iterator per
\* table, in list order, merged and drained into the queue
materialize_range(tbls, list, range) ==
    MergeAll([i \in 1..Len(list) |->
                Drain(tbls[list[i]].map, NewIterator(list[i], range))])

\* the mutant of seek: rows with a key equal to the target are dropped too
RECURSIVE seek_past(_, _)
seek_past(q, next_key) ==
    IF q # <<>> /\ ~BytesLess(next_key, q[1].key)
    THEN seek_past(Tail(q), next_key)
    ELSE q

\* VecDequeKeyValueIterator::seek: the front is popped while its key is
\* less than next_key
RECURSIVE seek(_, _)
seek(q, next_key) ==
    IF q # <<>> /\ BytesLess(q[1].key, next_key)
    THEN seek(Tail(q), next_key)
    ELSE q

\* the mutant of pop_front: the back of the queue is popped
pop_back(q) ==
    IF q = <<>> THEN [q |-> q, ret |-> None]
    ELSE [q |-> SubSeq(q, 1, Len(q) - 1), ret |-> Some(q[Len(q)])]

\* VecDeque::pop_front, as VecDequeKeyValueIterator::next_entry calls it
pop_front(q) ==
    IF q = <<>> THEN [q |-> q, ret |-> None]
    ELSE [q |-> Tail(q), ret |-> Some(q[1])]

(***************************************************************************)
(* The watch channel of the durability signal                              *)
(***************************************************************************)

\* the mutant of NewChannel: the receiver that watch::channel returns is
\* dropped instead of being kept in the struct
NewChannelNoReceiver ==
    [value |-> FALSE, version |-> 0, rx |-> 0, receivers |-> 0, tx |-> TRUE]

\* watch::channel(false): the value, the version of the value, the version
\* that the receiver kept in the struct (is_durable_rx, is_flushed_rx) has
\* seen, the number of receivers alive, which counts that one, and whether
\* the sender (is_durable_tx, is_flushed_tx) is alive
NewChannel ==
    [value |-> FALSE, version |-> 0, rx |-> 0, receivers |-> 1, tx |-> TRUE]

\* the struct that holds the sender and the first receiver is dropped
DropChannel(ch) == [ch EXCEPT !.tx = FALSE, !.receivers = ch.receivers - 1]

\* watch::Receiver::changed returns an error when the sender is gone and no
\* unseen version is left
ChangedFails(ch, seen) == ~ch.tx /\ ch.version = seen

\* watch::Receiver::clone and the drop of a receiver
CloneReceiver(ch) == [ch EXCEPT !.receivers = ch.receivers + 1]

DropReceiver(ch) == [ch EXCEPT !.receivers = ch.receivers - 1]

\* watch::Sender::send returns an error exactly when no receiver is alive
SendFails(ch) == ch.receivers = 0

\* the mutant of Send: the flag is flipped instead of being set
SendToggle(ch, v) == [ch EXCEPT !.value = ~ch.value, !.version = ch.version + 1]

\* the mutant of Send: the value is stored but the version is not advanced,
\* so that no receiver sees a change
SendNoWake(ch, v) == [ch EXCEPT !.value = v]

\* watch::Sender::send: the value is stored and the version advanced
Send(ch, v) == [ch EXCEPT !.value = v, !.version = ch.version + 1]

\* the mutant of BorrowAndUpdate: the value read is true whatever was sent
BorrowSet(ch) == [value |-> TRUE, seen |-> ch.version]

\* the mutant of BorrowAndUpdate: the version is marked seen, the value read
\* is the initial one
BorrowStale(ch) == [value |-> FALSE, seen |-> ch.version]

\* watch::Receiver::borrow_and_update: the value read and the version that
\* the receiver has seen afterwards
BorrowAndUpdate(ch) == [value |-> ch.value, seen |-> ch.version]

\* watch::Receiver::changed is ready when the version differs from the one
\* that the receiver has seen
HasChanged(ch, seen) == ch.version # seen

Waiters == 1..NumWaiters

(***************************************************************************)
(* State                                                                   *)
(***************************************************************************)

VARIABLES
    tables,     \* tables[t]: the map and the size counter of table t
    written,    \* history: written[t][k], the last write to key k of table t
    last,       \* history: the last call, its result and the state before
    iter,       \* the MemTableIterator
    yielded,    \* history: the rows the MemTableIterator returned
    records,    \* the queue of the VecDequeKeyValueIterator
    mat,        \* history: the arguments and the result of materialize_range
    popped,     \* history: the rows that next_entry returned before any seek
    floor,      \* history: the largest key that seek was called with
    nwrites,    \* the number of put and delete calls
    durable,    \* the watch channel of the durability signal
    waiters,    \* waiters[w]: the position of task w in await_durable
    notifies,   \* the number of notify_durable calls
    handle,     \* the handle that owns table 1, and the owners of its Arc
    flushed,    \* the watch channel of the flush signal of the memtable
    flushers,   \* flushers[w]: the position of task w in await_flush_to_l0
    writer,     \* the position of the writer inside put or delete
    panicked    \* history: an unwrap or expect of the program has failed

vars == <<tables, written, last, iter, yielded, records, mat, popped, floor,
          nwrites, durable, waiters, notifies, handle, flushed, flushers,
          writer, panicked>>

tableVars == <<tables, written, nwrites>>

iterVars == <<iter, yielded>>

mergeVars == <<records, mat, popped, floor>>

signalVars == <<durable, waiters, notifies>>

handleVars == <<handle, flushed, flushers>>

TableIds == 1..NumTables

\* WritableKVTable::new: the handle owns the only Arc of its table;
\* writable tells that the WritableKVTable exists, wraps which immutable
\* struct holds the table, id is last_wal_id or the id of the WAL, readers
\* counts the further clones of the Arc, frozen is the history of the table
\* at the moment the handle was consumed
NewHandle ==
    [writable |-> TRUE, wraps |-> "none", id |-> 0, readers |-> 0, frozen |-> None]

\* the methods of the table and of its wrapper take `&self`: they can be
\* called as long as the struct was not dropped
Alive(h) == h.wraps # "dropped"

\* the writer is outside put and delete
NoWrite == [pc |-> "idle", key |-> <<>>, entry |-> None, pre |-> None]

NoCall == [op |-> "none", t |-> 1, key |-> <<>>, ret |-> None, pre |-> None]

Init ==
    /\ tables = [t \in TableIds |-> NewTable]
    /\ written = [t \in TableIds |-> [k \in Keys |-> None]]
    /\ last = NoCall
    /\ iter = NoIterator
    /\ yielded = [rows |-> <<>>, done |-> FALSE]
    /\ records = [open |-> FALSE, q |-> <<>>]
    /\ mat = [list |-> <<>>, range |-> RangeFull, snap |-> None, q0 |-> <<>>]
    /\ popped = <<>>
    /\ floor = None
    /\ nwrites = 0
    /\ durable = NewChannel
    /\ waiters = [w \in Waiters |->
                    [pc |-> "idle", seen |-> 0, late |-> FALSE, waited |-> FALSE]]
    /\ notifies = 0
    /\ handle = NewHandle
    /\ flushed = NewChannel
    /\ flushers = [w \in Waiters |->
                     [pc |-> "idle", seen |-> 0, late |-> FALSE, waited |-> FALSE]]
    /\ writer = NoWrite
    /\ panicked = FALSE

(***************************************************************************)
(* The table: put, delete, get                                             *)
(***************************************************************************)

\* WritableKVTable::put -> KVTable::put
Put(t, key, value, attrs) ==
    /\ tables' = [tables EXCEPT ![t] = TablePut(tables[t], key, value, attrs)]
    /\ written' = [written EXCEPT
                     ![t][key] = Some(ValueWithAttributes(Value(value), attrs))]
    /\ last' = [op |-> "put", t |-> t, key |-> key, ret |-> None, pre |-> tables[t]]
    /\ UNCHANGED <<iterVars, mergeVars, signalVars, handleVars, writer, panicked>>

\* WritableKVTable::delete -> KVTable::delete
Delete(t, key, attrs) ==
    /\ tables' = [tables EXCEPT ![t] = TableDelete(tables[t], key, attrs)]
    /\ written' = [written EXCEPT
                     ![t][key] = Some(ValueWithAttributes(Tombstone, attrs))]
    /\ last' = [op |-> "delete", t |-> t, key |-> key, ret |-> None, pre |-> tables[t]]
    /\ UNCHANGED <<iterVars, mergeVars, signalVars, handleVars, writer, panicked>>

\* KVTable::get
Get(t, key) ==
    /\ last' = [op |-> "get", t |-> t, key |-> key,
                ret |-> TableGet(tables[t], key), pre |-> tables[t]]
    /\ UNCHANGED <<tables, written, nwrites, iterVars, mergeVars, signalVars, handleVars, writer, panicked>>

(***************************************************************************)
(* The range iterator                                                      *)
(***************************************************************************)

\* KVTable::range, and KVTable::iter with the full range
Range(t, range) ==
    /\ ~iter.open
    /\ iter' = NewIterator(t, range)
    /\ yielded' = [rows |-> <<>>, done |-> FALSE]
    /\ last' = [op |-> "range", t |-> t, key |-> <<>>, ret |-> None, pre |-> tables[t]]
    /\ UNCHANGED <<tableVars, mergeVars, signalVars, handleVars, writer, panicked>>

\* MemTableIterator::next_entry and next_entry_sync
NextEntrySync ==
    /\ iter.open
    /\ LET r == IterNext(tables[iter.t].map, iter) IN
       /\ iter' = r.it
       /\ yielded' = IF IsSome(r.ret)
                     THEN [yielded EXCEPT !.rows = Append(@, Unwrap(r.ret))]
                     ELSE [yielded EXCEPT !.done = TRUE]
       /\ last' = [op |-> "next", t |-> iter.t, key |-> <<>>, ret |-> r.ret,
                   pre |-> tables[iter.t]]
    /\ UNCHANGED <<tableVars, mergeVars, signalVars, handleVars, writer, panicked>>

\* one table, its single writer and its point lookups
Next ==
    \/ \E k \in WriterKeys, v \in Values, a \in RowAttributes :
          Put(1, k, v, a) /\ UNCHANGED nwrites
    \/ \E k \in WriterKeys, a \in RowAttributes :
          Delete(1, k, a) /\ UNCHANGED nwrites
    \/ \E k \in Keys : Get(1, k)

Spec == Init /\ [][Next]_vars

\* the payloads and attributes that the writer of IterSpec uses
IterValues == {<<7>>}

IterAttributes == {a \in RowAttributes : a.ts = None <=> a.expire_ts # None}

\* one table, filled by its single writer, then a range iterator that runs
\* over the quiescent table until it reports exhaustion
IterNext_ ==
    \/ \E k \in Keys, v \in IterValues, a \in IterAttributes :
          ~iter.open /\ Put(1, k, v, a) /\ UNCHANGED nwrites
    \/ \E k \in Keys, a \in IterAttributes :
          ~iter.open /\ Delete(1, k, a) /\ UNCHANGED nwrites
    \/ \E k \in Keys : ~iter.open /\ Get(1, k)
    \/ \E r \in Ranges : Range(1, r)
    \/ ~yielded.done /\ NextEntrySync

IterSpec == Init /\ [][IterNext_]_vars

(***************************************************************************)
(* The merged, materialized iterator                                       *)
(***************************************************************************)

\* VecDequeKeyValueIterator::materialize_range
Materialize(list, range) ==
    /\ ~records.open
    /\ records' = [open |-> TRUE, q |-> materialize_range(tables, list, range)]
    /\ mat' = [list |-> list, range |-> range, snap |-> written,
               q0 |-> materialize_range(tables, list, range)]
    /\ popped' = <<>>
    /\ floor' = None
    /\ last' = [op |-> "materialize", t |-> 1, key |-> <<>>, ret |-> None, pre |-> None]
    /\ UNCHANGED <<tables, written, iterVars, signalVars, handleVars, writer, panicked>>

\* the mutant of NextEntry: the rows are merged from the tables at each call
\* and the first one after the rows returned so far is taken
NextEntryLazy ==
    /\ records.open
    /\ LET now == materialize_range(tables, mat.list, mat.range)
           rest == IF popped = <<>> THEN now
                   ELSE SelectSeq(now, LAMBDA row :
                            BytesLess(popped[Len(popped)].key, row.key))
           r == pop_front(IF floor = None THEN rest ELSE records.q) IN
       /\ records' = [records EXCEPT !.q = r.q]
       /\ popped' = IF IsSome(r.ret) /\ floor = None
                    THEN Append(popped, Unwrap(r.ret))
                    ELSE popped
       /\ last' = [op |-> "next_entry", t |-> 1, key |-> <<>>, ret |-> r.ret,
                   pre |-> records.q]
    /\ UNCHANGED <<mat, floor, tables, written, iterVars, signalVars, handleVars, writer, panicked>>

\* VecDequeKeyValueIterator::next_entry
NextEntry ==
    /\ records.open
    /\ LET r == pop_front(records.q) IN
       /\ records' = [records EXCEPT !.q = r.q]
       /\ popped' = IF IsSome(r.ret) /\ floor = None
                    THEN Append(popped, Unwrap(r.ret))
                    ELSE popped
       /\ last' = [op |-> "next_entry", t |-> 1, key |-> <<>>, ret |-> r.ret,
                   pre |-> records.q]
    /\ UNCHANGED <<mat, floor, tables, written, iterVars, signalVars, handleVars, writer, panicked>>

\* VecDequeKeyValueIterator::seek
Seek(next_key) ==
    /\ records.open
    /\ records' = [records EXCEPT !.q = seek(records.q, next_key)]
    /\ floor' = IF floor = None \/ BytesLess(Unwrap(floor), next_key)
                THEN Some(next_key)
                ELSE floor
    /\ popped' = <<>>
    /\ last' = [op |-> "seek", t |-> 1, key |-> next_key, ret |-> None,
                pre |-> records.q]
    /\ UNCHANGED <<mat, tables, written, iterVars, signalVars, handleVars, writer, panicked>>

\* the payload that the writer of table t puts, the attributes and the
\* ranges that MergeSpec uses
MergeValue(t) == <<t>>

MergeAttributes == {a \in RowAttributes : a.ts # None /\ a.expire_ts = None}

MergeRanges ==
    {r \in Ranges : \/ r.start = Unbounded /\ r.end \in {Unbounded, Excluded(KeyList[2])}
                    \/ r.start = Excluded(KeyList[1]) /\ r.end = Unbounded}

\* several tables, filled by at most MaxWrites calls, then merged into one
\* queue that is read with next_entry and seek; the writers have stopped
\* when the queue is materialized
MergeNext ==
    \/ \E t \in TableIds, k \in MergeKeys, a \in MergeAttributes :
          /\ ~records.open
          /\ nwrites < MaxWrites
          /\ nwrites' = nwrites + 1
          /\ Put(t, k, MergeValue(t), a)
    \/ \E t \in TableIds, k \in MergeKeys, a \in MergeAttributes :
          /\ ~records.open
          /\ nwrites < MaxWrites
          /\ nwrites' = nwrites + 1
          /\ Delete(t, k, a)
    \/ \E list \in DistinctTableLists, r \in MergeRanges :
          Materialize(list, r) /\ nwrites' = MaxWrites
    \/ NextEntry /\ UNCHANGED nwrites
    \/ \E k \in MergeKeys : Seek(k) /\ UNCHANGED nwrites

MergeSpec == Init /\ [][MergeNext]_vars

(***************************************************************************)
(* The durability signal                                                   *)
(***************************************************************************)

\* await_durable, `let mut rx = self.is_durable_rx.clone()`: the clone has
\* seen what the table's receiver has seen
AwaitClone(w) ==
    /\ Alive(handle)
    /\ waiters[w].pc = "idle"
    /\ waiters' = [waiters EXCEPT ![w] =
                     [pc |-> "check", seen |-> durable.rx,
                      late |-> notifies > 0, waited |-> FALSE]]
    /\ durable' = CloneReceiver(durable)
    /\ UNCHANGED <<notifies, last, tableVars, iterVars, mergeVars, handleVars, writer, panicked>>

\* await_durable, `while !*rx.borrow_and_update()`: the loop ends when the
\* value read is true, and goes on to rx.changed() otherwise
AwaitCheck(w) ==
    /\ waiters[w].pc = "check"
    /\ LET b == BorrowAndUpdate(durable) IN
       waiters' = [waiters EXCEPT ![w].seen = b.seen,
                                  ![w].pc = IF b.value THEN "done" ELSE "changed",
                                  ![w].waited = @ \/ ~b.value]
    /\ UNCHANGED <<durable, notifies, last, tableVars, iterVars, mergeVars, handleVars, writer, panicked>>

\* await_durable, `rx.changed().await.expect(..)`: the task resumes when the
\* channel holds a version that the receiver has not seen, and panics when
\* changed() reports that the channel is closed
AwaitChanged(w) ==
    /\ waiters[w].pc = "changed"
    /\ HasChanged(durable, waiters[w].seen) \/ ChangedFails(durable, waiters[w].seen)
    /\ waiters' = [waiters EXCEPT ![w].seen = durable.version, ![w].pc = "check"]
    /\ panicked' = (panicked \/ ChangedFails(durable, waiters[w].seen))
    /\ UNCHANGED <<durable, notifies, last, tableVars, iterVars, mergeVars, handleVars, writer>>

\* await_durable has returned and its receiver is dropped; the task ends
\* and another one may start
AwaitReturn(w) ==
    /\ waiters[w].pc = "done"
    /\ waiters' = [waiters EXCEPT ![w].pc = "idle"]
    /\ durable' = DropReceiver(durable)
    /\ UNCHANGED <<notifies, last, tableVars, iterVars, mergeVars, handleVars, writer, panicked>>

\* KVTable::notify_durable
NotifyDurable ==
    /\ Alive(handle)
    /\ notifies < MaxNotifies
    /\ durable' = IF SendFails(durable) THEN durable ELSE Send(durable, TRUE)
    /\ panicked' = (panicked \/ SendFails(durable))
    /\ notifies' = notifies + 1
    /\ UNCHANGED <<waiters, last, tableVars, iterVars, mergeVars, handleVars, writer>>

LiveNext ==
    \/ \E w \in Waiters : AwaitClone(w)
    \/ \E w \in Waiters : AwaitCheck(w)
    \/ \E w \in Waiters : AwaitChanged(w)
    \/ \E w \in Waiters : AwaitReturn(w)
    \/ NotifyDurable

\* the runtime resumes every task that is ready, and the writer of the log
\* calls notify_durable once the table is durable
LiveSpec ==
    /\ Init
    /\ [][LiveNext]_vars
    /\ \A w \in Waiters : WF_vars(AwaitCheck(w)) /\ WF_vars(AwaitChanged(w))
    /\ WF_vars(notifies = 0 /\ NotifyDurable)

(***************************************************************************)
(* The materialized queue while the writers go on                          *)
(***************************************************************************)

\* the tables of SnapSpec are merged in the order of their ids
SnapLists == {l \in DistinctTableLists :
                 Len(l) = NumTables /\ \A i \in DOMAIN l : l[i] = i}

\* several tables whose writers go on after the queue was materialized:
\* at most MaxWrites put and delete calls, before and between the
\* next_entry and seek calls on the queue, and the durability notification
\* after the materialization
SnapNext ==
    \/ \E t \in TableIds, k \in MergeKeys, a \in MergeAttributes :
          /\ nwrites < MaxWrites
          /\ nwrites' = nwrites + 1
          /\ Put(t, k, MergeValue(t), a)
    \/ \E t \in TableIds, k \in MergeKeys, a \in MergeAttributes :
          /\ nwrites < MaxWrites
          /\ nwrites' = nwrites + 1
          /\ Delete(t, k, a)
    \/ \E list \in SnapLists : Materialize(list, RangeFull) /\ UNCHANGED nwrites
    \/ NextEntry /\ UNCHANGED nwrites
    \/ \E k \in MergeKeys : Seek(k) /\ UNCHANGED nwrites
    \/ records.open /\ notifies = 0 /\ NotifyDurable

SnapSpec == Init /\ [][SnapNext]_vars

(***************************************************************************)
(* The writer, statement by statement, and concurrent readers              *)
(***************************************************************************)

\* KVTable::put and KVTable::delete, first statement:
\* maybe_subtract_old_val_from_size reads the old entry and subtracts its
\* footprint from the counter
WriteSubtract(key, entry) ==
    /\ writer.pc = "idle"
    /\ tables' = [tables EXCEPT
                    ![1].size = maybe_subtract_old_val_from_size(tables[1], key)]
    /\ writer' = [pc |-> "add", key |-> key, entry |-> Some(entry),
                  pre |-> Some(tables[1])]
    /\ UNCHANGED <<written, last, iterVars, mergeVars, signalVars, handleVars,
                   panicked>>

\* second statement: size.fetch_add of the footprint of the new entry
WriteAdd ==
    /\ writer.pc = "add"
    /\ tables' = [tables EXCEPT
                    ![1].size = @ + AddedSize(writer.key, Unwrap(writer.entry))]
    /\ writer' = [writer EXCEPT !.pc = "insert"]
    /\ UNCHANGED <<written, last, iterVars, mergeVars, signalVars, handleVars,
                   panicked>>

\* third statement, map.insert: the node that holds the key is removed first
WriteUnlink ==
    /\ writer.pc = "insert"
    /\ IsSome(MapGet(tables[1].map, writer.key))
    /\ tables' = [tables EXCEPT ![1].map = MapRemove(@, writer.key)]
    /\ UNCHANGED <<writer, written, last, iterVars, mergeVars, signalVars,
                   handleVars, panicked>>

\* third statement, map.insert: the new node is linked in, and the call
\* returns
WriteLink ==
    /\ writer.pc = "insert"
    /\ ~IsSome(MapGet(tables[1].map, writer.key))
    /\ tables' = [tables EXCEPT
                    ![1].map = MapLink(@, writer.key, Unwrap(writer.entry))]
    /\ written' = [written EXCEPT ![1][writer.key] = writer.entry]
    /\ last' = [op |-> IF Unwrap(writer.entry).value.kind = "Tombstone"
                       THEN "delete" ELSE "put",
                t |-> 1, key |-> writer.key, ret |-> None,
                pre |-> Unwrap(writer.pre)]
    /\ writer' = NoWrite
    /\ UNCHANGED <<iterVars, mergeVars, signalVars, handleVars, panicked>>

\* KVTable::size
Size(t) ==
    /\ last' = [op |-> "size", t |-> t, key |-> <<>>,
                ret |-> Some(tables[t].size), pre |-> tables[t]]
    /\ UNCHANGED <<tables, written, nwrites, writer, iterVars, mergeVars,
                   signalVars, handleVars, panicked>>

\* the entries that the writer of ConcSpec puts and deletes with
ConcEntries ==
    {ValueWithAttributes(Value(v), a) : v \in IterValues, a \in IterAttributes}
    \cup {ValueWithAttributes(Tombstone, a) : a \in IterAttributes}

\* one table, its single writer running put and delete statement by
\* statement, and readers that call size and get between the statements
ConcNext ==
    \/ \E k \in WriterKeys, e \in ConcEntries :
          WriteSubtract(k, e) /\ UNCHANGED nwrites
    \/ WriteAdd /\ UNCHANGED nwrites
    \/ WriteUnlink /\ UNCHANGED nwrites
    \/ WriteLink /\ UNCHANGED nwrites
    \/ Size(1)
    \/ \E k \in WriterKeys : Get(1, k)

ConcSpec == Init /\ [][ConcNext]_vars

\* the entries that the writer of ConcIterSpec puts and deletes with
ConcIterEntries ==
    {ValueWithAttributes(Value(v), a) : v \in IterValues, a \in MergeAttributes}
    \cup {ValueWithAttributes(Tombstone, a) : a \in MergeAttributes}

\* the ranges of ConcIterSpec: the full range, and the ranges with one bound
\* at the first key of the list
ConcIterRanges ==
    {r \in Ranges :
        /\ r.start = Unbounded \/ r.end = Unbounded
        /\ r.start = Unbounded \/ r.start.key = KeyList[1]
        /\ r.end = Unbounded \/ r.end.key = KeyList[1]}

\* one table, its single writer running put and delete statement by
\* statement, and one range iterator whose next_entry calls fall between
\* the statements, until it reports exhaustion
ConcIterNext ==
    \/ \E k \in WriterKeys, e \in ConcIterEntries :
          WriteSubtract(k, e) /\ UNCHANGED nwrites
    \/ WriteAdd /\ UNCHANGED nwrites
    \/ WriteUnlink /\ UNCHANGED nwrites
    \/ WriteLink /\ UNCHANGED nwrites
    \/ \E r \in ConcIterRanges : Range(1, r)
    \/ ~yielded.done /\ NextEntrySync

ConcIterSpec == Init /\ [][ConcIterNext]_vars

(***************************************************************************)
(* The handle, the frozen table and the flush signal                       *)
(***************************************************************************)

\* the values of last_wal_id and of the id of a WAL
WalIds == {7}

\* the mutant of CanWrite: KVTable::put and delete are callable by every
\* owner of the Arc
CanWriteShared(h) == h.writable \/ h.readers > 0

\* WritableKVTable::put and delete take `&mut self`, and KVTable::put and
\* delete are private: the call needs the handle, which is gone once it was
\* moved into an immutable struct
CanWrite(h) == h.writable

\* `table.table().clone()` on the handle (table() returns &Arc<KVTable>) and
\* ImmutableMemtable::table(), which returns a clone of the Arc: a reader
\* becomes one more owner of the table
TableClone ==
    /\ handle.readers < MaxReaders
    /\ handle' = [handle EXCEPT !.readers = @ + 1]
    /\ UNCHANGED <<flushed, flushers, last, tableVars, iterVars, mergeVars,
                   signalVars, writer, panicked>>

\* a reader drops its clone of the Arc
TableDrop ==
    /\ handle.readers > 0
    /\ handle' = [handle EXCEPT !.readers = @ - 1]
    /\ UNCHANGED <<flushed, flushers, last, tableVars, iterVars, mergeVars,
                   signalVars, writer, panicked>>

\* the mutant of FreezeMemtable: the memtable is built from a clone of the
\* Arc and the handle stays usable
FreezeMemtableKeepHandle(last_wal_id) ==
    /\ handle.writable
    /\ handle.wraps = "none"
    /\ handle' = [handle EXCEPT !.wraps = "memtable", !.id = last_wal_id,
                                !.frozen = Some(tables[1])]
    /\ flushed' = NewChannel
    /\ UNCHANGED <<flushers, last, tableVars, iterVars, mergeVars, signalVars,
                   writer, panicked>>

\* the mutant of FreezeMemtable: the flush flag starts with the value of the
\* durability flag
FreezeMemtableSharedFlag(last_wal_id) ==
    /\ handle.writable
    /\ handle.wraps = "none"
    /\ handle' = [handle EXCEPT !.writable = FALSE, !.wraps = "memtable",
                                !.id = last_wal_id, !.frozen = Some(tables[1])]
    /\ flushed' = [NewChannel EXCEPT !.value = durable.value]
    /\ UNCHANGED <<flushers, last, tableVars, iterVars, mergeVars, signalVars,
                   writer, panicked>>

\* ImmutableMemtable::new(table, last_wal_id): the handle is moved in, its
\* Arc is kept, and a new flush channel starts at false
FreezeMemtable(last_wal_id) ==
    /\ handle.writable
    /\ handle.wraps = "none"
    /\ handle' = [handle EXCEPT !.writable = FALSE, !.wraps = "memtable",
                                !.id = last_wal_id, !.frozen = Some(tables[1])]
    /\ flushed' = NewChannel
    /\ UNCHANGED <<flushers, last, tableVars, iterVars, mergeVars, signalVars,
                   writer, panicked>>

\* ImmutableWal::new(id, table): the handle is moved in and its Arc is kept
FreezeWal(id) ==
    /\ handle.writable
    /\ handle.wraps = "none"
    /\ handle' = [handle EXCEPT !.writable = FALSE, !.wraps = "wal",
                                !.id = id, !.frozen = Some(tables[1])]
    /\ UNCHANGED <<flushed, flushers, last, tableVars, iterVars, mergeVars,
                   signalVars, writer, panicked>>

\* ImmutableMemtable::notify_flush_to_l0
NotifyFlush ==
    /\ handle.wraps = "memtable"
    /\ flushed.version < MaxNotifies
    /\ flushed' = IF SendFails(flushed) THEN flushed ELSE Send(flushed, TRUE)
    /\ panicked' = (panicked \/ SendFails(flushed))
    /\ UNCHANGED <<handle, flushers, last, tableVars, iterVars, mergeVars,
                   signalVars, writer>>

\* the values and attributes that the writer of LifeSpec uses
LifeValues == {<<7>>}

LifeAttributes == {a \in RowAttributes : a.ts # None /\ a.expire_ts = None}

\* one table from its creation on: the writer that holds the handle, the
\* readers that take and drop clones of the Arc and look keys up, the
\* freeze into a memtable or a WAL, and the two notifications
LifeNext ==
    \/ \E k \in WriterKeys, v \in LifeValues, a \in LifeAttributes :
          CanWrite(handle) /\ Put(1, k, v, a) /\ UNCHANGED nwrites
    \/ \E k \in WriterKeys, a \in LifeAttributes :
          CanWrite(handle) /\ Delete(1, k, a) /\ UNCHANGED nwrites
    \/ \E k \in WriterKeys : handle.readers > 0 /\ Get(1, k)
    \/ TableClone
    \/ TableDrop
    \/ \E id \in WalIds : FreezeMemtable(id)
    \/ \E id \in WalIds : FreezeWal(id)
    \/ NotifyDurable
    \/ NotifyFlush

LifeSpec == Init /\ [][LifeNext]_vars

(***************************************************************************)
(* The waiters of the two signals                                          *)
(***************************************************************************)

\* the tasks of SignalSpec that call await_durable, and those that call
\* await_flush_to_l0
DurableWaiters == {w \in Waiters : w <= 2}

FlushWaiters == {w \in Waiters : w <= 1}

\* await_durable is dropped while it is suspended in rx.changed(): its
\* receiver is dropped with it
AwaitAbandon(w) ==
    /\ waiters[w].pc = "changed"
    /\ waiters' = [waiters EXCEPT ![w].pc = "idle"]
    /\ durable' = DropReceiver(durable)
    /\ UNCHANGED <<notifies, last, tableVars, iterVars, mergeVars, handleVars,
                   writer, panicked>>

\* await_flush_to_l0, `let mut rx = self.is_flushed_rx.clone()`
FlushClone(w) ==
    /\ handle.wraps = "memtable"
    /\ flushers[w].pc = "idle"
    /\ flushers' = [flushers EXCEPT ![w] =
                      [pc |-> "check", seen |-> flushed.rx,
                       late |-> flushed.version > 0, waited |-> FALSE]]
    /\ flushed' = CloneReceiver(flushed)
    /\ UNCHANGED <<handle, last, tableVars, iterVars, mergeVars, signalVars,
                   writer, panicked>>

\* await_flush_to_l0, `while !*rx.borrow_and_update()`
FlushCheck(w) ==
    /\ flushers[w].pc = "check"
    /\ LET b == BorrowAndUpdate(flushed) IN
       flushers' = [flushers EXCEPT ![w].seen = b.seen,
                                    ![w].pc = IF b.value THEN "done" ELSE "changed",
                                    ![w].waited = @ \/ ~b.value]
    /\ UNCHANGED <<handle, flushed, last, tableVars, iterVars, mergeVars,
                   signalVars, writer, panicked>>

\* await_flush_to_l0, `rx.changed().await.expect(..)`
FlushChanged(w) ==
    /\ flushers[w].pc = "changed"
    /\ HasChanged(flushed, flushers[w].seen) \/ ChangedFails(flushed, flushers[w].seen)
    /\ flushers' = [flushers EXCEPT ![w].seen = flushed.version, ![w].pc = "check"]
    /\ panicked' = (panicked \/ ChangedFails(flushed, flushers[w].seen))
    /\ UNCHANGED <<handle, flushed, last, tableVars, iterVars, mergeVars,
                   signalVars, writer>>

\* await_flush_to_l0 has returned and its receiver is dropped
FlushReturn(w) ==
    /\ flushers[w].pc = "done"
    /\ flushers' = [flushers EXCEPT ![w].pc = "idle"]
    /\ flushed' = DropReceiver(flushed)
    /\ UNCHANGED <<handle, last, tableVars, iterVars, mergeVars, signalVars,
                   writer, panicked>>

\* await_flush_to_l0 is dropped while it is suspended in rx.changed()
FlushAbandon(w) ==
    /\ flushers[w].pc = "changed"
    /\ flushers' = [flushers EXCEPT ![w].pc = "idle"]
    /\ flushed' = DropReceiver(flushed)
    /\ UNCHANGED <<handle, last, tableVars, iterVars, mergeVars, signalVars,
                   writer, panicked>>

\* the last owner drops the table and its wrapper: no call borrows them any
\* more, and the senders and the receivers that the structs hold are dropped
DropTable ==
    /\ Alive(handle)
    /\ handle.readers = 0
    /\ \A w \in Waiters : waiters[w].pc = "idle" /\ flushers[w].pc = "idle"
    /\ handle' = [handle EXCEPT !.writable = FALSE, !.wraps = "dropped"]
    /\ durable' = DropChannel(durable)
    /\ flushed' = DropChannel(flushed)
    /\ UNCHANGED <<flushers, waiters, notifies, last, tableVars, iterVars,
                   mergeVars, writer, panicked>>

\* one table that is frozen into a memtable at some moment: the tasks that
\* wait for its two signals, return or are dropped while they wait, and the
\* notifications of the two signals
SignalNext ==
    \/ \E id \in WalIds : FreezeMemtable(id)
    \/ NotifyDurable
    \/ NotifyFlush
    \/ \E w \in DurableWaiters : AwaitClone(w)
    \/ \E w \in DurableWaiters : AwaitCheck(w)
    \/ \E w \in DurableWaiters : AwaitChanged(w)
    \/ \E w \in DurableWaiters : AwaitReturn(w)
    \/ \E w \in DurableWaiters : AwaitAbandon(w)
    \/ \E w \in FlushWaiters : FlushClone(w)
    \/ \E w \in FlushWaiters : FlushCheck(w)
    \/ \E w \in FlushWaiters : FlushChanged(w)
    \/ \E w \in FlushWaiters : FlushReturn(w)
    \/ \E w \in FlushWaiters : FlushAbandon(w)
    \/ DropTable

SignalSpec == Init /\ [][SignalNext]_vars

(***************************************************************************)
(* Definitions that the properties are stated with                         *)
(***************************************************************************)

\* the footprint of one stored entry: key length, payload length (0 for a
\* tombstone), 8 when the creation timestamp is present
Footprint(k, e) ==
    Len(k)
    + (IF e.value.kind = "Tombstone" THEN 0 ELSE Len(e.value.bytes))
    + (IF e.attrs.ts # None THEN 8 ELSE 0)

StoredKeys(m) == {m[i].key : i \in DOMAIN m}

RECURSIVE SumFootprints(_, _)
SumFootprints(S, m) ==
    IF S = {} THEN 0
    ELSE LET k == CHOOSE x \in S : TRUE IN
         Footprint(k, Unwrap(MapGet(m, k))) + SumFootprints(S \ {k}, m)

\* the entry of key k before the last call
OldEntry == MapGet(last.pre.map, last.key)

\* the last call overwrote a tombstone
OverTombstone == IsSome(OldEntry) /\ Unwrap(OldEntry).value.kind = "Tombstone"

\* whether key k lies within the bounds of range r
InBounds(r, k) ==
    /\ \/ r.start.kind = "Unbounded"
       \/ r.start.kind = "Included" /\ (k = r.start.key \/ BytesLess(r.start.key, k))
       \/ r.start.kind = "Excluded" /\ BytesLess(r.start.key, k)
    /\ \/ r.end.kind = "Unbounded"
       \/ r.end.kind = "Included" /\ (k = r.end.key \/ BytesLess(k, r.end.key))
       \/ r.end.kind = "Excluded" /\ BytesLess(k, r.end.key)

\* the row of key k with stored entry e
RowFor(k, e) ==
    [key |-> k, value |-> e.value, seq |-> 0,
     create_ts |-> e.attrs.ts, expire_ts |-> e.attrs.expire_ts]

\* the smallest key of a set, in byte order
MinKey(S) == CHOOSE x \in S : \A y \in S : x = y \/ BytesLess(x, y)

\* the rows of the keys of S in ascending byte order, w[k] being the last
\* write to k
RECURSIVE SortedRows(_, _)
SortedRows(S, w) ==
    IF S = {} THEN <<>>
    ELSE LET k == MinKey(S) IN
         <<RowFor(k, Unwrap(w[k]))>> \o SortedRows(S \ {k}, w)

\* the keys written to table t
WrittenKeys(w) == {k \in Keys : w[k] # None}

\* the rows that an iterator over range r of table 1 has to yield
ExpectedRows(r) ==
    SortedRows({k \in WrittenKeys(written[1]) : InBounds(r, k)}, written[1])

IsPrefix(s, t) == Len(s) <= Len(t) /\ s = SubSeq(t, 1, Len(s))

Ascending(rows) ==
    \A i \in 1..(Len(rows) - 1) : BytesLess(rows[i].key, rows[i + 1].key)

(***************************************************************************)
(* C1  Size invariant: after every put and delete of the single writer,    *)
(* size() is the sum, over the keys stored in the map, of key length +     *)
(* value length (0 for a tombstone) + 8 if the creation timestamp is       *)
(* present; the expiration timestamp contributes nothing.                  *)
(***************************************************************************)
C1_SizeInvariant ==
    \A t \in TableIds :
        tables[t].size = SumFootprints(StoredKeys(tables[t].map), tables[t].map)

\* a put has overwritten an entry of a table that holds two keys, and an
\* entry with an expiration timestamp and no creation timestamp is stored
C1_Witness ==
    /\ last.op = "put"
    /\ IsSome(OldEntry)
    /\ Len(tables[1].map) = 2
    /\ \E i \in DOMAIN tables[1].map :
          /\ tables[1].map[i].val.attrs.expire_ts # None
          /\ tables[1].map[i].val.attrs.ts = None

(***************************************************************************)
(* C2  Idempotent delete cost, as amended: a delete of a key that is       *)
(* stored as a tombstone leaves size() unchanged when the new attributes   *)
(* carry a creation timestamp exactly if the stored tombstone's do.        *)
(***************************************************************************)
C2_RepeatedDeleteStable ==
    (/\ last.op = "delete"
     /\ OverTombstone
     /\ (Unwrap(OldEntry).attrs.ts = None
         <=> Unwrap(written[last.t][last.key]).attrs.ts = None))
    => tables[last.t].size = last.pre.size

\* C2 as stated: every further delete of a tombstoned key leaves size() as
\* it was
C2_Original ==
    (last.op = "delete" /\ OverTombstone) => tables[last.t].size = last.pre.size

\* a tombstone with a creation timestamp has been deleted again, with a
\* creation timestamp, and the size is what it was
C2_Witness ==
    /\ last.op = "delete"
    /\ OverTombstone
    /\ Unwrap(OldEntry).attrs.ts # None
    /\ Unwrap(written[last.t][last.key]).attrs.ts # None
    /\ tables[last.t].size = last.pre.size
    /\ tables[last.t].size > 8

(***************************************************************************)
(* C3  Last-write-wins point lookup: get(k) returns nothing if k was never *)
(* written and otherwise the entry of the most recent put or delete on k;  *)
(* the map holds at most one entry per key; get changes neither the map    *)
(* nor size().                                                             *)
(***************************************************************************)
C3_LastWriteWins ==
    /\ \A t \in TableIds, k \in Keys : TableGet(tables[t], k) = written[t][k]
    /\ \A t \in TableIds : \A i, j \in DOMAIN tables[t].map :
          i # j => tables[t].map[i].key # tables[t].map[j].key
    /\ last.op = "get" =>
          /\ last.ret = written[last.t][last.key]
          /\ tables[last.t] = last.pre

\* get has returned the entry of a key that was written, in a table that
\* holds two keys
C3_Witness ==
    /\ last.op = "get"
    /\ IsSome(last.ret)
    /\ Len(tables[1].map) = 2

(***************************************************************************)
(* C4  Tombstone visibility: after delete(k), whether or not k was put     *)
(* before, get(k) returns an entry whose value is the tombstone marker,    *)
(* and a range iteration with next_entry over a range that contains k      *)
(* yields a row for k whose value is the tombstone marker.                 *)
(***************************************************************************)
C4_TombstoneVisible ==
    /\ last.op = "delete" =>
          /\ IsSome(TableGet(tables[last.t], last.key))
          /\ Unwrap(TableGet(tables[last.t], last.key)).value = Tombstone
    /\ (/\ last.op = "get"
        /\ IsSome(written[last.t][last.key])
        /\ Unwrap(written[last.t][last.key]).value = Tombstone)
       => IsSome(last.ret) /\ Unwrap(last.ret).value = Tombstone
    /\ yielded.done =>
          \A k \in Keys :
              (/\ IsSome(written[iter.t][k])
               /\ Unwrap(written[iter.t][k]).value = Tombstone
               /\ InBounds(iter.range, k))
              => \E i \in DOMAIN yielded.rows :
                    /\ yielded.rows[i].key = k
                    /\ yielded.rows[i].value = Tombstone

\* an iteration has ended that yielded a tombstone row and a value row
C4_Witness ==
    /\ yielded.done
    /\ \E i, j \in DOMAIN yielded.rows :
          /\ yielded.rows[i].value = Tombstone
          /\ yielded.rows[j].value.kind = "Value"

(***************************************************************************)
(* C5  Sort order: iter() on a quiescent table yields one row per stored   *)
(* key, in strictly ascending byte order of the keys, without duplicate    *)
(* or omission, then reports exhaustion; each row carries the stored       *)
(* value, sequence number 0 and the timestamps of the stored attributes.   *)
(***************************************************************************)
C5_SortOrder ==
    (iter.open /\ iter.range = RangeFull) =>
        /\ Ascending(yielded.rows)
        /\ IsPrefix(yielded.rows, ExpectedRows(RangeFull))
        /\ yielded.done => yielded.rows = ExpectedRows(RangeFull)
        /\ (last.op = "next" /\ last.ret = None) => yielded.done

\* iter() has yielded three rows in ascending order and reported exhaustion
C5_Witness ==
    /\ iter.open
    /\ iter.range = RangeFull
    /\ yielded.done
    /\ last.op = "next"
    /\ last.ret = None
    /\ Len(yielded.rows) >= 3

(***************************************************************************)
(* C6  Range resume semantics: range(bounds) on a quiescent table yields   *)
(* exactly the stored keys within the bounds, in ascending order; with an  *)
(* inclusive start bound equal to a stored key that key is yielded first,  *)
(* with a start bound that is not a stored key the first yielded key is    *)
(* the smallest stored key strictly greater than the bound.                *)
(***************************************************************************)
C6_RangeResume ==
    iter.open =>
        /\ IsPrefix(yielded.rows, ExpectedRows(iter.range))
        /\ yielded.done => yielded.rows = ExpectedRows(iter.range)
        /\ (/\ yielded.rows # <<>>
            /\ iter.range.start.kind = "Included"
            /\ iter.range.start.key \in WrittenKeys(written[iter.t]))
           => yielded.rows[1].key = iter.range.start.key
        /\ (/\ yielded.rows # <<>>
            /\ iter.range.start.kind # "Unbounded"
            /\ iter.range.start.key \notin WrittenKeys(written[iter.t]))
           => yielded.rows[1].key =
                 MinKey({k \in WrittenKeys(written[iter.t]) :
                            BytesLess(iter.range.start.key, k)})

\* a range whose inclusive start is a stored key, with a stored key below
\* the start and one beyond the end bound, has yielded the start key first
\* and reported exhaustion
C6_Witness ==
    /\ iter.open
    /\ yielded.done
    /\ iter.range.start.kind = "Included"
    /\ iter.range.end.kind = "Excluded"
    /\ Len(yielded.rows) = 1
    /\ yielded.rows[1].key = iter.range.start.key
    /\ Len(tables[iter.t].map) = 3

\* a range whose start is not a stored key has yielded the next greater key
C6_WitnessNonExisting ==
    /\ iter.open
    /\ yielded.done
    /\ iter.range.start.kind = "Included"
    /\ iter.range.start.key \notin WrittenKeys(written[iter.t])
    /\ Len(yielded.rows) = 1
    /\ Len(tables[iter.t].map) = 2

(***************************************************************************)
(* Definitions for the merged iterator                                     *)
(***************************************************************************)

\* the rows that the queue was materialized with, as long as seek has not
\* been called: those returned so far, then those still buffered
Output == popped \o records.q

\* the positions in the input list of the tables that stored key k when the
\* queue was materialized
Holders(k) == {i \in DOMAIN mat.list : mat.snap[mat.list[i]][k] # None}

\* the entry of key k in the earliest table of the input list that holds it
EarliestEntry(k) ==
    LET i == CHOOSE x \in Holders(k) : \A y \in Holders(k) : x <= y IN
    Unwrap(mat.snap[mat.list[i]][k])

\* the keys of the range that at least one input table holds
MergedKeys == {k \in Keys : Holders(k) # {} /\ InBounds(mat.range, k)}

RowsOfKey(rows, k) == {i \in DOMAIN rows : rows[i].key = k}

\* the rows of q with a key that is not less than x
AtOrPast(q, x) == SelectSeq(q, LAMBDA row : ~BytesLess(row.key, x))

(***************************************************************************)
(* C7  Merge precedence: for a key of the range that more than one table   *)
(* of the input list stores, the single row emitted is the entry of the    *)
(* table that comes earliest in the list, also when that entry is a        *)
(* tombstone and a later table holds a live value.                         *)
(***************************************************************************)
C7_MergePrecedence ==
    (records.open /\ floor = None) =>
        \A k \in Keys :
            (Cardinality(Holders(k)) > 1 /\ InBounds(mat.range, k)) =>
                /\ Cardinality(RowsOfKey(Output, k)) = 1
                /\ \A i \in RowsOfKey(Output, k) :
                      Output[i] = RowFor(k, EarliestEntry(k))

\* the queue holds the tombstone of the first table for a key that the
\* second table of the list stores with a live value
C7_Witness ==
    /\ last.op = "materialize"
    /\ Len(mat.list) = 2
    /\ \E k \in Keys :
          /\ Holders(k) = {1, 2}
          /\ InBounds(mat.range, k)
          /\ EarliestEntry(k).value = Tombstone
          /\ Unwrap(mat.snap[mat.list[2]][k]).value.kind = "Value"
          /\ \E i \in DOMAIN records.q :
                records.q[i].key = k /\ records.q[i].value = Tombstone

(***************************************************************************)
(* C8  The merged output is sorted, de-duplicated and complete: next_entry *)
(* returns rows with strictly ascending keys, one row for every key of the *)
(* range that some input table stores (tombstones included), and nothing   *)
(* on every call once the queue is exhausted.                              *)
(***************************************************************************)
C8_MergedOutput ==
    /\ (records.open /\ floor = None) =>
          /\ Ascending(Output)
          /\ {Output[i].key : i \in DOMAIN Output} = MergedKeys
          /\ Len(Output) = Cardinality(MergedKeys)
    /\ last.op = "next_entry" =>
          /\ last.pre = <<>> => (last.ret = None /\ records.q = <<>>)
          /\ last.pre # <<>> =>
                (last.ret = Some(last.pre[1]) /\ records.q = Tail(last.pre))

\* next_entry has returned two or more rows, one of them a tombstone, and
\* then nothing, twice
C8_Witness ==
    /\ last.op = "next_entry"
    /\ last.pre = <<>>
    /\ last.ret = None
    /\ floor = None
    /\ Len(popped) >= 2
    /\ \E i \in DOMAIN popped : popped[i].value = Tombstone
    /\ Len(mat.list) = 2

(***************************************************************************)
(* C9  Seek monotonicity: seek(X) removes exactly the buffered rows with a *)
(* key less than X and keeps the others in their order; afterwards no      *)
(* next_entry result has a key less than X; a seek on a queue whose front  *)
(* is at or past X, or on an empty queue, changes nothing.                 *)
(***************************************************************************)
C9_SeekMonotonic ==
    /\ last.op = "seek" =>
          /\ records.q = AtOrPast(last.pre, last.key)
          /\ (last.pre = <<>> \/ ~BytesLess(last.pre[1].key, last.key))
             => records.q = last.pre
    /\ floor # None =>
          /\ \A i \in DOMAIN records.q : ~BytesLess(records.q[i].key, Unwrap(floor))
          /\ (last.op = "next_entry" /\ IsSome(last.ret))
             => ~BytesLess(Unwrap(last.ret).key, Unwrap(floor))

\* seek has removed a row and the front of the queue is the row of the
\* target key
C9_Witness ==
    /\ last.op = "seek"
    /\ Len(records.q) < Len(last.pre)
    /\ records.q # <<>>
    /\ records.q[1].key = last.key

(***************************************************************************)
(* C10  Completion signal fan-out: for any number of tasks in              *)
(* await_durable and any interleaving of their steps with notify_durable,  *)
(* every waiter eventually returns, and a waiter that starts after the     *)
(* notification returns without suspending in changed().                   *)
(***************************************************************************)
C10_NoLostWakeup ==
    /\ \A w \in Waiters : [](waiters[w].late => waiters[w].pc # "changed")
    /\ \A w \in Waiters : (waiters[w].pc # "idle") ~> (waiters[w].pc = "done")

\* after one notify_durable, a waiter that had suspended and a waiter that
\* started after the notification have both returned
C10_Witness ==
    /\ notifies = 1
    /\ \E w1, w2 \in Waiters :
          /\ waiters[w1].pc = "done" /\ waiters[w1].waited /\ ~waiters[w1].late
          /\ waiters[w2].pc = "done" /\ waiters[w2].late /\ ~waiters[w2].waited

(***************************************************************************)
(* C11  The durability signal goes one way                                 *)
(***************************************************************************)

\* C11: the durability flag is false as long as notify_durable was not
\* called; a step changes the flag only if it is a notify_durable call, and
\* never from true to false; a notify_durable call, the first or a later
\* one, leaves the flag true and the map and the size counter of every
\* table as they were
C11_OneWaySignal ==
    /\ [](notifies = 0 => ~durable.value)
    /\ [][/\ durable.value => durable'.value
          /\ durable'.value # durable.value => notifies' = notifies + 1
          /\ notifies' # notifies => durable'.value /\ tables' = tables]_vars

\* notify_durable was called twice on a table that holds entries
C11_Witness ==
    /\ notifies >= 2
    /\ durable.value
    /\ tables[1].map # <<>>
    /\ tables[1].size > 0

(***************************************************************************)
(* C12  The flush signal is separate from the durability signal            *)
(***************************************************************************)

\* C12: the flush flag is false when the memtable is built, whatever the
\* durability flag is; await_flush_to_l0 returns only after
\* notify_flush_to_l0 was called and await_durable only after notify_durable
\* was; a notify_durable call leaves the flush channel as it was, and a
\* notify_flush_to_l0 call leaves the durability channel as it was
C12_FlushSeparate ==
    /\ [][handle.wraps = "none" /\ handle'.wraps = "memtable" =>
            ~flushed'.value /\ flushed'.version = 0]_vars
    /\ [](\A w \in FlushWaiters : flushers[w].pc = "done" => flushed.version > 0)
    /\ [](\A w \in Waiters : waiters[w].pc = "done" => notifies > 0)
    /\ [](flushed.version = 0 => ~flushed.value)
    /\ [][notifies' # notifies => flushed' = flushed /\ flushers' = flushers]_vars
    /\ [][flushed'.version # flushed.version =>
            durable' = durable /\ waiters' = waiters]_vars

\* the memtable was built from a durable table and flushed afterwards, and
\* a task that waited for the flush has returned
C12_Witness ==
    /\ handle.wraps = "memtable"
    /\ durable.value
    /\ flushed.value
    /\ \E w \in FlushWaiters : flushers[w].pc = "done" /\ flushers[w].waited

\* the memtable is flushed and not durable, and a task still waits for
\* durability
C12_WitnessCross ==
    /\ flushed.value
    /\ ~durable.value
    /\ \E w \in Waiters : waiters[w].pc = "changed"

(***************************************************************************)
(* C13  No mutation after the freeze                                       *)
(***************************************************************************)

\* C13: once the handle was consumed into an ImmutableMemtable or an
\* ImmutableWal, the map and the size counter of the table are what they
\* were at that moment, and no step changes them or what wraps the table
C13_FrozenTableStable ==
    /\ [](handle.wraps # "none" =>
            /\ ~handle.writable
            /\ tables[1] = Unwrap(handle.frozen))
    /\ [][handle.wraps # "none" =>
            /\ tables' = tables
            /\ handle'.wraps = handle.wraps
            /\ handle'.frozen = handle.frozen]_vars

\* a table that holds entries was frozen into a memtable, and afterwards
\* both signals were raised and a reader looked a key up
C13_Witness ==
    /\ handle.wraps = "memtable"
    /\ tables[1].map # <<>>
    /\ durable.value
    /\ flushed.value
    /\ last.op = "get"
    /\ IsSome(last.ret)

(***************************************************************************)
(* C14  Owners of the table while it is mutable                            *)
(***************************************************************************)

C18_AwaitSafe ==
    /\ [](\A w \in Waiters :
            waiters[w].pc = "done" => notifies > 0 /\ durable.value)
    /\ [][\A w \in Waiters :
            /\ waiters[w].pc # "done" /\ waiters'[w].pc = "done" =>
                  waiters[w].pc = "check" /\ durable.value
            /\ waiters[w].pc = "changed" /\ waiters'[w].pc # "changed" =>
                  waiters'[w].pc \in {"check", "idle"}]_vars

\* a task started to wait before the notification, was woken by it, read
\* the flag again and returned
C18_Witness ==
    \E w \in Waiters :
        /\ waiters[w].pc = "done"
        /\ waiters[w].waited
        /\ ~waiters[w].late

(***************************************************************************)
(* C19  The channels are never closed while they are used                  *)
(***************************************************************************)

\* C19: as long as the table was not dropped, the sender and at least one
\* receiver of the durability channel are alive, and so are those of the
\* flush channel of the memtable; no send and no changed() has failed
C19_ChannelOpen ==
    /\ ~panicked
    /\ Alive(handle) => durable.tx /\ durable.receivers >= 1
    /\ handle.wraps = "memtable" => flushed.tx /\ flushed.receivers >= 1

\* a task that waited for durability was dropped before any notification,
\* no task waits any more, and both notifications were sent afterwards
C19_Witness ==
    /\ \E w \in Waiters :
          waiters[w].pc = "idle" /\ waiters[w].waited /\ waiters[w].seen = 0
    /\ \A w \in Waiters : waiters[w].pc = "idle"
    /\ \A w \in FlushWaiters : flushers[w].pc = "idle" /\ flushers[w].waited
    /\ notifies > 0
    /\ flushed.version > 0
    /\ durable.receivers = 1

(***************************************************************************)
(* C15  size() between the statements of put and delete                    *)
(***************************************************************************)

\* C15: in every state, also between two statements of a put or delete
\* call, the counter that size() reads is at least the sum of the footprints
\* of the entries that the map holds
C15_NeverUndercounts ==
    tables[1].size >= SumFootprints(StoredKeys(tables[1].map), tables[1].map)

\* the calls of the writer, taken as a whole, agree with the atomic put and
\* delete of the other specifications
StepwiseAgrees ==
    writer.pc = "idle" /\ last.op \in {"put", "delete"} =>
        LET e == Unwrap(written[1][last.key]) IN
        tables[1] = IF last.op = "put"
                    THEN TablePut(last.pre, last.key, e.value.bytes, e.attrs)
                    ELSE TableDelete(last.pre, last.key, e.attrs)

(***************************************************************************)
(* C16  What a reader sees of a key that is being overwritten              *)
(***************************************************************************)

\* the entries that a lookup of key k may return: the one of the last
\* completed write, and the one of the write in progress
Visible(k) ==
    {written[1][k]}
    \cup (IF writer.pc # "idle" /\ writer.key = k THEN {writer.entry} ELSE {})

\* C16: in every state, also between two statements of a put or delete
\* call, get(k) returns the entry of the last completed write to k or the
\* entry of the write to k in progress, and nothing only if k was never
\* written
C16_AtomicVisibility == \A k \in Keys : TableGet(tables[1], k) \in Visible(k)

(***************************************************************************)
(* C17  The range iterator under a concurrent writer                       *)
(***************************************************************************)

\* the nodes that the cursor of the iterator can still move to
Reachable(m, it) ==
    {i \in DOMAIN m :
        IF IsSome(it.head)
        THEN BytesLess(Unwrap(it.head), m[i].key)
        ELSE above_lower_bound(it.range.start, m[i].key)}

\* a bound on the number of next_entry calls until the iterator reports
\* exhaustion, if the writer takes no further step
CallsLeft ==
    IF yielded.done THEN 0
    ELSE 1 + Cardinality(Reachable(tables[iter.t].map, iter))

Sought(q) == IF floor = None THEN q ELSE AtOrPast(q, Unwrap(floor))

\* C20: the rows that next_entry has returned and will return are the ones
\* that materialize_range put into the queue, whatever was put, deleted or
\* notified since; a put, delete or notify call leaves the queue as it is,
\* and a next_entry or seek call leaves the map, the size counter and the
\* signals of every table as they are
C20_Snapshot ==
    /\ [](records.open =>
            /\ floor = None => popped \o records.q = mat.q0
            /\ \E n \in 0..Len(mat.q0) :
                  records.q = SubSeq(mat.q0, n + 1, Len(mat.q0))
            /\ \A i \in DOMAIN records.q : records.q[i] \in
                  {Sought(mat.q0)[j] : j \in DOMAIN Sought(mat.q0)})
    /\ [][records.open /\ records'.open /\ records' # records =>
            tables' = tables /\ durable' = durable /\ flushed' = flushed]_vars
    /\ [][records.open /\ (tables' # tables \/ durable' # durable) =>
            records' = records /\ popped' = popped]_vars

\* after the queue was materialized, the key of its first row was
\* overwritten in its table and the table was notified durable; then
\* next_entry returned the first row as it was materialized
C20_Witness ==
    /\ records.open
    /\ Len(mat.q0) >= 1
    /\ last.op = "next_entry"
    /\ last.ret = Some(mat.q0[1])
    /\ durable.value
    /\ materialize_range(tables, mat.list, mat.range) # mat.q0
    /\ \E t \in TableIds : written[t][mat.q0[1].key] # mat.snap[t][mat.q0[1].key]
====
